---- MODULE Spec2Model ----
(***************************************************************************)
(* Model of pykis/utils/repr.py: the depth-bounded structured pretty       *)
(* printer (_repr, dict_repr, list_repr, tuple_repr, set_repr,             *)
(* object_repr, kis_repr, _append_with_indent).                            *)
(*                                                                         *)
(* Text is a sequence of one-character strings, so that lengths, line      *)
(* breaks, prefixes and suffixes are computed on the characters the code   *)
(* writes.  A render is run as an explicit call stack: one frame per       *)
(* active Python call, one action per step of a call's body.               *)
(***************************************************************************)
EXTENDS Integers, Sequences, FiniteSets, TLC

VARIABLES
    pc,      \* "idle" | "running" | "done" | "raised"
    call,    \* the arguments of the top-level call
    stack,   \* active calls, innermost last
    ret,     \* the call that returned last: its frame, decision and text
    result,  \* text returned by the top-level call (<<>> until then)
    prev,    \* the caller's earlier render of the same record: call, return, text
    dpc,     \* domestic_daily_orders: "idle" | "start" | "call" | "fetch" | "done" | "raised"
    dargs,   \* domestic_daily_orders: start, end and the date its clock read gives
    clock,   \* the dates read from the clock so far, one per datetime.now()
    todo,    \* the _domestic_daily_orders calls still to be made, in order
    inner,   \* the active _domestic_daily_orders call: start, end, is_recent, page
    sent     \* the requests fetched so far: INQR_STRT_DT, INQR_END_DT, page

reprVars == <<pc, call, stack, ret, result, prev>>
dateVars == <<dpc, dargs, clock, todo, inner, sent>>
vars == <<pc, call, stack, ret, result, prev, dpc, dargs, clock, todo, inner, sent>>

-----------------------------------------------------------------------------
(* Bounds of the model *)

\* largest max_depth argument a top-level call is given (besides the default)
MaxDepthArg == 3
\* largest ellipsis argument a top-level call is given
MaxEllipsis == 3
\* frames the call stack may hold; no run of the code modelled here gets near
MaxStack == 12

(* Program constants *)

SINGLE_LINE_MAX_LENGTH == 120
SINGLE_LINE_MAX_COUNT == 5
DEFAULT_MAX_DEPTH == 7

-----------------------------------------------------------------------------
(* Text *)

NL == "\n"
SQ == "'"
DQ == "\""
BS == "\\"

\* Python None, for the optional string arguments
None == "None"
\* the default indent, four spaces
DEFAULT_INDENT == <<" ", " ", " ", " ">>
\* a second indent unit callers pass
TWO_INDENT == <<" ", " ">>

RECURSIVE Rep(_, _)
Rep(c, n) == IF n = 0 THEN <<>> ELSE <<c>> \o Rep(c, n - 1)

HasNL(s) == \E i \in 1..Len(s) : s[i] = NL

IsPrefix(p, s) == Len(p) <= Len(s) /\ SubSeq(s, 1, Len(p)) = p

IsSuffix(p, s) == Len(p) <= Len(s) /\ SubSeq(s, Len(s) - Len(p) + 1, Len(s)) = p

\* str.splitlines() on text whose only line break is "\n"
RECURSIVE SplitFrom(_, _, _)
SplitFrom(s, i, cur) ==
    IF i > Len(s)
    THEN (IF cur = <<>> THEN <<>> ELSE <<cur>>)
    ELSE IF s[i] = NL
         THEN <<cur>> \o SplitFrom(s, i + 1, <<>>)
         ELSE SplitFrom(s, i + 1, Append(cur, s[i]))

splitlines(s) == SplitFrom(s, 1, <<>>)

\* _append_with_indent: sb after the writes
RECURSIVE WriteLines(_, _, _, _)
WriteLines(sb, lns, i, indent) ==
    IF i > Len(lns) THEN sb
    ELSE WriteLines((IF i > 1 THEN sb \o <<NL>> ELSE sb) \o indent \o lns[i],
                    lns, i + 1, indent)

_append_with_indent(sb, value, indent) == WriteLines(sb, splitlines(value), 1, indent)

\* repr() of a str: the quote is ' unless the text holds ' and no "
RECURSIVE EscapeFrom(_, _, _)
EscapeFrom(s, i, q) ==
    IF i > Len(s) THEN <<>>
    ELSE (IF s[i] = q \/ s[i] = BS THEN <<BS, s[i]>>
          ELSE IF s[i] = NL THEN <<BS, "n">>
          ELSE <<s[i]>>) \o EscapeFrom(s, i + 1, q)

PyReprStr(s) ==
    LET hasS == \E i \in 1..Len(s) : s[i] = SQ
        hasD == \E i \in 1..Len(s) : s[i] = DQ
        q == IF hasS /\ ~hasD THEN DQ ELSE SQ
    IN <<q>> \o EscapeFrom(s, 1, q) \o <<q>>

-----------------------------------------------------------------------------
(* Literal pieces of text the code writes *)

DOTS == <<".", ".", ".">>
COMMA_SP == <<",", " ">>
COMMA_NL == <<",", NL>>
COLON_SP == <<":", " ">>
EQ_SIGN == <<"=">>
COMMA_DOTS == <<",", " ", ".", ".", ".">>
DOTS_NL == <<".", ".", ".", NL>>
UNBOUNDED_TEXT == <<"U", "n", "b", "o", "u", "n", "d", "e", "d">>

\* the UNBOUNDED object: a value that is no text (it has no len())
UNBOUNDED == <<"<UnboundedType>">>

\* str(v) inside an f-string: UnboundedType.__repr__ for UNBOUNDED
Format(v) == IF v = UNBOUNDED THEN UNBOUNDED_TEXT ELSE v

\* the tie argument of _iterable_repr, split into open_tie and close_tie
LIST_TIE == <<"[", "]">>
TUPLE_TIE == <<"(", ")">>
SET_TIE == <<"{", "}">>

open_tie(tie) == SubSeq(tie, 1, Len(tie) \div 2)
close_tie(tie) == SubSeq(tie, Len(tie) \div 2 + 1, Len(tie))

-----------------------------------------------------------------------------
(* Layout decision *)

RECURSIVE SumFrom(_, _, _)
\* sum(len(k) + len(v) + extra for k, v in values)
SumFrom(values, i, extra) ==
    IF i > Len(values) THEN 0
    ELSE Len(values[i].k) + Len(values[i].v) + extra + SumFrom(values, i + 1, extra)

AnyNL(values) == \E i \in 1..Len(values) : HasNL(values[i].v)

\* dict_repr, lines 141-151: the value of lines after the decision
dict_lines(lines, values, has_ellipsis) ==
    IF lines # None THEN lines
    ELSE IF /\ Len(values) <= SINGLE_LINE_MAX_COUNT
            /\ ~has_ellipsis
            /\ SumFrom(values, 1, 4) - 1 <= SINGLE_LINE_MAX_LENGTH
            /\ ~AnyNL(values)
         THEN "single" ELSE "multiple"

\* iterable_lines with the "no ellipsis" condition of the decision left out
iterable_lines_ignoring_ellipsis(lines, values, has_ellipsis) ==
    IF lines # None THEN lines
    ELSE IF /\ Len(values) <= SINGLE_LINE_MAX_COUNT
            /\ SumFrom(values, 1, 2) - 1 <= SINGLE_LINE_MAX_LENGTH
            /\ ~AnyNL(values)
         THEN "single" ELSE "multiple"

\* _iterable_repr, lines 283-293 (the entries carry an empty key)
iterable_lines(lines, values, has_ellipsis) ==
    IF lines # None THEN lines
    ELSE IF /\ Len(values) <= SINGLE_LINE_MAX_COUNT
            /\ ~has_ellipsis
            /\ SumFrom(values, 1, 2) - 1 <= SINGLE_LINE_MAX_LENGTH
            /\ ~AnyNL(values)
         THEN "single" ELSE "multiple"

\* object_repr, lines 372-381: len(v) of the UNBOUNDED object raises TypeError
object_raises(lines, values) ==
    /\ lines = None
    /\ Len(values) <= SINGLE_LINE_MAX_COUNT
    /\ \E i \in 1..Len(values) : values[i].v = UNBOUNDED

object_lines(lines, values) ==
    IF lines # None THEN lines
    ELSE IF /\ Len(values) <= SINGLE_LINE_MAX_COUNT
            /\ SumFrom(values, 1, 2) - 1 <= SINGLE_LINE_MAX_LENGTH
            /\ ~AnyNL(values)
         THEN "single" ELSE "multiple"

\* bool(lines): a non-empty str is true
PyTruthy(lines) == lines # None /\ lines # ""

-----------------------------------------------------------------------------
(* Emission *)

\* the text of one entry as each renderer formats it
dict_entry(e) == PyReprStr(e.k) \o COLON_SP \o e.v
iterable_entry(e) == e.v
object_entry(e) == e.k \o EQ_SIGN \o Format(e.v)

EntryText(shape, e) ==
    IF shape = "dict" THEN dict_entry(e)
    ELSE IF shape = "object" THEN object_entry(e)
    ELSE iterable_entry(e)

RECURSIVE WriteSingle(_, _, _, _)
\* the single-line loop: ", " before every entry but the first
WriteSingle(sb, shape, values, i) ==
    IF i > Len(values) THEN sb
    ELSE WriteSingle((IF i > 1 THEN sb \o COMMA_SP ELSE sb) \o EntryText(shape, values[i]),
                     shape, values, i + 1)

RECURSIVE WriteMultiple(_, _, _, _, _)
\* the multi-line loop: ",\n" before every entry but the first, each entry indented
WriteMultiple(sb, shape, values, i, indent) ==
    IF i > Len(values) THEN sb
    ELSE WriteMultiple(
            _append_with_indent(IF i > 1 THEN sb \o COMMA_NL ELSE sb,
                                EntryText(shape, values[i]), indent),
            shape, values, i + 1, indent)

\* dict_repr, lines 153-185
dict_emit(lines, values, has_ellipsis, indent) ==
    IF PyTruthy(lines)
    THEN WriteSingle(<<"{">>, "dict", values, 1)
            \o (IF has_ellipsis THEN COMMA_DOTS ELSE <<>>) \o <<"}">>
    ELSE WriteMultiple(<<"{", NL>>, "dict", values, 1, indent) \o <<NL>>
            \o (IF has_ellipsis THEN indent \o DOTS_NL ELSE <<>>) \o <<"}">>

\* _iterable_repr, lines 295-327
iterable_emit(tie, lines, values, has_ellipsis, indent) ==
    IF lines = "single"
    THEN WriteSingle(open_tie(tie), "iterable", values, 1)
            \o (IF has_ellipsis THEN COMMA_DOTS ELSE <<>>) \o close_tie(tie)
    ELSE WriteMultiple(open_tie(tie) \o <<NL>>, "iterable", values, 1, indent) \o <<NL>>
            \o (IF has_ellipsis THEN indent \o DOTS_NL ELSE <<>>) \o close_tie(tie)

\* object_repr, lines 383-403
object_emit(name, lines, values, indent) ==
    IF lines = "single"
    THEN WriteSingle(name \o <<"(">>, "object", values, 1) \o <<")">>
    ELSE WriteMultiple(name \o <<"(", NL>>, "object", values, 1, indent) \o <<NL, ")">>

-----------------------------------------------------------------------------
(* Truncation *)

\* an optional int: <<>> is None, <<k>> is k
NoEllipsis == <<>>

\* (ellipsis or length): None and 0 are both false
ellipsis_or(ellipsis, length) ==
    IF ellipsis = NoEllipsis \/ ellipsis[1] = 0 THEN length ELSE ellipsis[1]

\* has_ellipsis = length > (ellipsis or length)
has_ellipsis_of(ellipsis, length) == length > ellipsis_or(ellipsis, length)

\* the number of entries the loop appends before its break
Retained(ellipsis, length) ==
    IF ellipsis_or(ellipsis, length) < length THEN ellipsis_or(ellipsis, length) ELSE length

-----------------------------------------------------------------------------
(* The value graphs rendered: a heap of objects that refer to each other by
   name, so that a graph may be cyclic. *)

NoAttrs == <<>>

Blank ==
    [kind |-> "opaque", ty |-> "int", text |-> <<>>, items |-> <<>>, keys |-> <<>>,
     name |-> <<>>, attrs |-> NoAttrs, dir |-> <<>>, cfgFields |-> <<>>,
     cfgLines |-> None, cfgFieldLines |-> NoAttrs, cfgIndent |-> DEFAULT_INDENT,
     cfgMaxDepth |-> DEFAULT_MAX_DEPTH]

PyInt(t) == [Blank EXCEPT !.text = t]
PyStr(t) == [Blank EXCEPT !.ty = "str", !.text = t]
PyList(xs) == [Blank EXCEPT !.kind = "list", !.items = xs]
PyTuple(xs) == [Blank EXCEPT !.kind = "tuple", !.items = xs]
PySet(xs) == [Blank EXCEPT !.kind = "set", !.items = xs]
PyDict(ks, xs) == [Blank EXCEPT !.kind = "dict", !.keys = ks, !.items = xs]
\* an instance of a class decorated with kis_repr(*fields, lines, field_lines, max_depth)
KisObj(n, at, dr, fs, ln, fl, md) ==
    [Blank EXCEPT !.kind = "kis", !.name = n, !.attrs = at, !.dir = dr, !.cfgFields = fs,
                  !.cfgLines = ln, !.cfgFieldLines = fl, !.cfgMaxDepth = md]

\* field names
F_a == <<"a">>
F_b == <<"b">>
F_c == <<"c">>
F_d == <<"d">>
F_e == <<"e">>
F_f == <<"f">>
F_me == <<"m", "e">>
F_items == <<"i", "t", "e", "m", "s">>
F_tag == <<"t", "a", "g">>

Heap ==
    [n \in {"i1", "i2", "i3", "i4", "i5", "i6", "i7"} |->
        PyInt(<<CASE n = "i1" -> "1" [] n = "i2" -> "2" [] n = "i3" -> "3" [] n = "i4" -> "4"
                  [] n = "i5" -> "5" [] n = "i6" -> "6" [] OTHER -> "7">>)]
    @@ [n \in {"ka", "kb", "kc", "kd", "ke", "kf", "kg"} |->
        PyStr(<<CASE n = "ka" -> "a" [] n = "kb" -> "b" [] n = "kc" -> "c" [] n = "kd" -> "d"
                  [] n = "ke" -> "e" [] n = "kf" -> "f" [] OTHER -> "g">>)]
    @@ ("s21" :> PyStr(Rep("x", 21)))     \* repr is 23 characters
    @@ ("s17" :> PyStr(Rep("y", 17)))     \* repr is 19 characters
    @@ ("s18" :> PyStr(Rep("z", 18)))     \* repr is 20 characters
    @@ ("L0" :> PyList(<<>>))
    @@ ("T0" :> PyTuple(<<>>))
    @@ ("S0" :> PySet(<<>>))
    @@ ("D0" :> PyDict(<<>>, <<>>))
    @@ ("L3" :> PyList(<<"i1", "i2", "i3">>))
    @@ ("L6" :> PyList(<<"i1", "i2", "i3", "i4", "i5", "i6">>))
    @@ ("T2" :> PyTuple(<<"i1", "L0">>))
    @@ ("S2" :> PySet(<<"i1", "i2">>))
    @@ ("D2" :> PyDict(<<"ka", "i2">>, <<"i1", "T0">>))
    @@ ("D7" :> PyDict(<<"ka", "kb", "kc", "kd", "ke", "kf", "kg">>,
                       <<"i1", "i2", "i3", "i4", "i5", "i6", "i7">>))
    @@ ("D1" :> PyDict(<<"ka">>, <<"L6">>))
    @@ ("LL" :> PyList(<<"L6", "D0">>))
    @@ ("TS" :> PyTuple(<<"S2", "S0">>))
    \* cost 4 * 25 + 21 - 1 = 120 and 4 * 25 + 22 - 1 = 121
    @@ ("L120" :> PyList(<<"s21", "s21", "s21", "s21", "s17">>))
    @@ ("L121" :> PyList(<<"s21", "s21", "s21", "s21", "s18">>))
    \* a list that is its own element, and a list nested in itself alone
    @@ ("Lcyc" :> PyList(<<"i1", "Lcyc">>))
    @@ ("Nest" :> PyList(<<"Nest">>))
    \* Order("a", "b") whose attribute b was never set
    @@ ("Order" :> KisObj(<<"O", "r", "d", "e", "r">>, (F_a :> "i1"), <<F_a>>,
                          <<F_a, F_b>>, None, NoAttrs, DEFAULT_MAX_DEPTH))
    \* six listed fields, two of them never set
    @@ ("Wide" :> KisObj(<<"W", "i", "d", "e">>,
                         (F_a :> "i1") @@ (F_b :> "i2") @@ (F_c :> "i3") @@ (F_d :> "i4"),
                         <<F_a, F_b, F_c, F_d>>,
                         <<F_a, F_b, F_c, F_d, F_e, F_f>>, None, NoAttrs, DEFAULT_MAX_DEPTH))
    \* a record whose field refers back to the record
    @@ ("Node" :> KisObj(<<"N", "o", "d", "e">>, (F_me :> "Node"), <<F_me>>,
                         <<F_me>>, None, NoAttrs, DEFAULT_MAX_DEPTH))
    \* no field list: fields or None is None, so dir() is used
    @@ ("Pair" :> KisObj(<<"P", "a", "i", "r">>, (F_a :> "i1") @@ (F_b :> "L0"), <<F_a, F_b>>,
                         <<>>, None, NoAttrs, 2))
    \* per-field layout of a list, a dict and a record
    @@ ("Box" :> KisObj(<<"B", "o", "x">>,
                        (F_items :> "L3") @@ (F_tag :> "D2") @@ (F_me :> "Pair"),
                        <<F_items, F_me, F_tag>>,
                        <<F_items, F_tag, F_me>>, None,
                        (F_items :> "multiple") @@ (F_tag :> "multiple") @@ (F_me :> "multiple"),
                        DEFAULT_MAX_DEPTH))
    \* two list fields, each open to a per-field layout
    @@ ("Twin" :> KisObj(<<"T", "w", "i", "n">>, (F_a :> "L3") @@ (F_b :> "L3"), <<F_a, F_b>>,
                         <<F_a, F_b>>, None, NoAttrs, DEFAULT_MAX_DEPTH))
    \* a dict / list / record cycle
    @@ ("Dc" :> PyDict(<<"ka">>, <<"Lc">>))
    @@ ("Lc" :> PyList(<<"Rc">>))
    @@ ("Rc" :> KisObj(<<"R", "c">>, (F_d :> "Dc"), <<F_d>>, <<F_d>>, "multiple", NoAttrs, 3))

Nodes == DOMAIN Heap

NodesOf(kinds) == {n \in Nodes : Heap[n].kind \in kinds}

\* repr(obj) of a value that is no container and no kis_repr object
builtin_repr(n) == IF Heap[n].ty = "str" THEN PyReprStr(Heap[n].text) ELSE Heap[n].text

\* getattr(obj, field) raises AttributeError
attr_missing(n, field) == field \notin DOMAIN Heap[n].attrs

\* field_lines.get(field) if field_lines else None
field_lines_get(field_lines, field) ==
    IF field \in DOMAIN field_lines THEN field_lines[field] ELSE None

-----------------------------------------------------------------------------
(* Call frames *)

\* _depth + 1, the depth every nested _repr call is given
child_depth(_depth) == _depth + 1

NoFrame ==
    [fn |-> "none", obj |-> "i1", tie |-> <<>>, lines |-> None, indent |-> DEFAULT_INDENT,
     ellipsis |-> NoEllipsis, max_depth |-> DEFAULT_MAX_DEPTH, depth |-> 0,
     fieldsNone |-> TRUE, fields |-> <<>>, field_lines |-> NoAttrs,
     phase |-> "enter", values |-> <<>>]

\* _repr(obj, lines, indent, max_depth, _depth)
ReprFrame(obj, lines, indent, max_depth, depth) ==
    [NoFrame EXCEPT !.fn = "_repr", !.obj = obj, !.lines = lines, !.indent = indent,
                    !.max_depth = max_depth, !.depth = depth]

\* dict_repr(dct, lines, indent, ellipsis, max_depth, _depth)
DictFrame(obj, lines, indent, ellipsis, max_depth, depth) ==
    [NoFrame EXCEPT !.fn = "dict_repr", !.obj = obj, !.lines = lines, !.indent = indent,
                    !.ellipsis = ellipsis, !.max_depth = max_depth, !.depth = depth]

\* list_repr, tuple_repr, set_repr: _iterable_repr with the shape's tie
IterFn(kind) ==
    IF kind = "list" THEN "list_repr" ELSE IF kind = "tuple" THEN "tuple_repr" ELSE "set_repr"

TieOf(fn) ==
    IF fn = "list_repr" THEN LIST_TIE ELSE IF fn = "tuple_repr" THEN TUPLE_TIE ELSE SET_TIE

IterFrame(fn, obj, lines, indent, ellipsis, max_depth, depth) ==
    [NoFrame EXCEPT !.fn = fn, !.obj = obj, !.tie = TieOf(fn), !.lines = lines,
                    !.indent = indent, !.ellipsis = ellipsis, !.max_depth = max_depth,
                    !.depth = depth]

\* object_repr(obj, fields, lines, field_lines, indent, max_depth, _depth)
ObjectFrame(obj, fieldsNone, fields, lines, field_lines, indent, max_depth, depth) ==
    [NoFrame EXCEPT !.fn = "object_repr", !.obj = obj, !.fieldsNone = fieldsNone,
                    !.fields = fields, !.lines = lines, !.field_lines = field_lines,
                    !.indent = indent, !.max_depth = max_depth, !.depth = depth]

\* the __repr__ that kis_repr installs: object_repr with the decorator's arguments;
\* fields or None is None for an empty field tuple
KisFrame(obj, depth) ==
    ObjectFrame(obj, Heap[obj].cfgFields = <<>>, Heap[obj].cfgFields, Heap[obj].cfgLines,
                Heap[obj].cfgFieldLines, Heap[obj].cfgIndent, Heap[obj].cfgMaxDepth, depth)

IterFns == {"list_repr", "tuple_repr", "set_repr"}
ContainerFns == IterFns \cup {"dict_repr"}
RenderFns == ContainerFns \cup {"object_repr"}

Top == stack[Len(stack)]

\* len(dct), len(lst)
length_of(f) == Len(Heap[f.obj].items)

\* the placeholder a renderer returns at _depth >= max_depth
placeholder(f) ==
    IF f.fn = "dict_repr" THEN <<"{", ":", ".", ".", ".", "}">>
    ELSE IF f.fn = "object_repr" THEN Heap[f.obj].name \o <<"(", ".", ".", ".", ")">>
    ELSE open_tie(f.tie) \o DOTS \o close_tie(f.tie)

\* the key under which a parent stores the text its child call returns
PendingKey(f) ==
    IF f.fn = "dict_repr" THEN builtin_repr(Heap[f.obj].keys[Len(f.values) + 1])
    ELSE IF f.fn = "object_repr" THEN f.fields[Len(f.values) + 1]
    ELSE <<>>

\* the stack after its innermost call returned text to its caller
Deliver(stk, text) ==
    LET rest == SubSeq(stk, 1, Len(stk) - 1)
    IN IF rest = <<>> THEN rest
       ELSE [rest EXCEPT ![Len(rest)].values =
                Append(@, [k |-> PendingKey(rest[Len(rest)]), v |-> text])]

NoRet ==
    [frame |-> NoFrame, lines |-> None, has_ellipsis |-> FALSE, limited |-> FALSE,
     out |-> <<>>]

Returns(text, r) ==
    /\ stack' = Deliver(stack, text)
    /\ ret' = r
    /\ pc' = IF Len(stack) = 1 THEN "done" ELSE "running"
    /\ result' = IF Len(stack) = 1 THEN text ELSE result
    /\ UNCHANGED <<call, prev, dateVars>>

-----------------------------------------------------------------------------
(* Arguments of the top-level calls *)

DepthArgs == (0..MaxDepthArg) \cup {DEFAULT_MAX_DEPTH}
IndentArgs == {DEFAULT_INDENT, TWO_INDENT}
LinesArgs == {None, "single", "multiple"}
EllipsisArgs == {NoEllipsis} \cup {<<k>> : k \in 0..MaxEllipsis}
\* field_lines arguments: none, or one mode for every field of the object
FieldLinesArgs(obj) ==
    {NoAttrs} \cup {[f \in DOMAIN Heap[obj].attrs |-> m] : m \in {"single", "multiple"}}
\* fields arguments: None, or the class's own list
FieldsArgs(obj) == {<<TRUE, <<>> >>, <<FALSE, Heap[obj].cfgFields>>}

\* the top-level calls: _repr, dict_repr, list_repr / tuple_repr / set_repr,
\* object_repr, and repr(obj) of a kis_repr object, each at _depth = 0
repr_calls ==
    {ReprFrame(obj, lines, indent, md, 0) :
        obj \in Nodes, lines \in LinesArgs, indent \in IndentArgs, md \in DepthArgs}

dict_repr_calls ==
    {DictFrame(a[1], a[2], a[3], a[4], a[5], 0) :
        a \in NodesOf({"dict"}) \X LinesArgs \X IndentArgs \X EllipsisArgs \X DepthArgs}

iterable_repr_calls ==
    {IterFrame(IterFn(Heap[a[1]].kind), a[1], a[2], a[3], a[4], a[5], 0) :
        a \in NodesOf({"list", "tuple", "set"}) \X LinesArgs \X IndentArgs
                \X EllipsisArgs \X DepthArgs}

object_repr_calls ==
    UNION {{ObjectFrame(a[1], fs[1], fs[2], a[2], fl, a[3], a[4], 0) :
                fs \in FieldsArgs(a[1]), fl \in FieldLinesArgs(a[1])} :
           a \in NodesOf({"kis"}) \X LinesArgs \X IndentArgs \X DepthArgs}

kis_repr_calls == {KisFrame(obj, 0) : obj \in NodesOf({"kis"})}

Calls ==
    repr_calls \cup dict_repr_calls \cup iterable_repr_calls \cup object_repr_calls
        \cup kis_repr_calls

NoPrev == [call |-> NoFrame, ret |-> NoRet, result |-> <<>>]

\* no order-history query is under way
NoDate == [year |-> 0, month |-> 0, day |-> 0]
NoDates == [start |-> NoDate, end |-> NoDate, now |-> NoDate]
NoInner == [start |-> NoDate, end |-> NoDate, is_recent |-> FALSE, page |-> 0]

\* the program is about to make one of the calls
Init ==
    /\ pc = "idle"
    /\ call \in Calls
    /\ stack = <<>>
    /\ ret = NoRet
    /\ result = <<>>
    /\ prev = NoPrev
    /\ dpc = "idle"
    /\ dargs = NoDates
    /\ clock = <<>>
    /\ todo = <<>>
    /\ inner = NoInner
    /\ sent = <<>>

\* the call is made: its frame is the only one
Call ==
    /\ pc = "idle"
    /\ pc' = "running"
    /\ stack' = <<call>>
    /\ UNCHANGED <<call, ret, result, prev, dateVars>>

-----------------------------------------------------------------------------
(* _repr, lines 62-107 *)

Repr_limit ==
    /\ pc = "running"
    /\ Top.fn = "_repr"
    /\ Top.depth >= Top.max_depth
    /\ Returns(DOTS, [NoRet EXCEPT !.frame = Top, !.limited = TRUE, !.out = DOTS])

\* the isinstance chain: the call is passed on with the same _depth, and its
\* return value is returned unchanged
Repr_container ==
    /\ pc = "running"
    /\ Top.fn = "_repr"
    /\ Top.depth < Top.max_depth
    /\ Heap[Top.obj].kind \in {"dict", "list", "tuple", "set"}
    /\ stack' = [stack EXCEPT ![Len(stack)] =
            IF Heap[Top.obj].kind = "dict"
            THEN DictFrame(Top.obj, Top.lines, Top.indent, NoEllipsis, Top.max_depth, Top.depth)
            ELSE IterFrame(IterFn(Heap[Top.obj].kind), Top.obj, Top.lines, Top.indent,
                           NoEllipsis, Top.max_depth, Top.depth)]
    /\ UNCHANGED <<pc, call, ret, result, prev, dateVars>>

\* repr_fn(_depth=_depth): only the depth is passed on
Repr_kis ==
    /\ pc = "running"
    /\ Top.fn = "_repr"
    /\ Top.depth < Top.max_depth
    /\ Heap[Top.obj].kind = "kis"
    /\ stack' = [stack EXCEPT ![Len(stack)] = KisFrame(Top.obj, Top.depth)]
    /\ UNCHANGED <<pc, call, ret, result, prev, dateVars>>

Repr_opaque ==
    /\ pc = "running"
    /\ Top.fn = "_repr"
    /\ Top.depth < Top.max_depth
    /\ Heap[Top.obj].kind = "opaque"
    /\ Returns(builtin_repr(Top.obj),
               [NoRet EXCEPT !.frame = Top, !.out = builtin_repr(Top.obj)])

-----------------------------------------------------------------------------
(* dict_repr, _iterable_repr, object_repr *)

\* if _depth >= max_depth: return the placeholder
Render_limit ==
    /\ pc = "running"
    /\ Top.fn \in RenderFns
    /\ Top.phase = "enter"
    /\ Top.depth >= Top.max_depth
    /\ Returns(placeholder(Top),
               [NoRet EXCEPT !.frame = Top, !.limited = TRUE, !.out = placeholder(Top)])

\* values = []; object_repr: fields = dir(obj) when fields is None
Render_enter ==
    /\ pc = "running"
    /\ Top.fn \in RenderFns
    /\ Top.phase = "enter"
    /\ Top.depth < Top.max_depth
    /\ stack' = [stack EXCEPT ![Len(stack)] =
            [Top EXCEPT !.phase = "loop",
                        !.fields = IF Top.fn = "object_repr" /\ Top.fieldsNone
                                   THEN Heap[Top.obj].dir ELSE @]]
    /\ UNCHANGED <<pc, call, ret, result, prev, dateVars>>

\* the loop of dict_repr and _iterable_repr: the next retained entry is rendered
Container_child ==
    /\ pc = "running"
    /\ Top.fn \in ContainerFns
    /\ Top.phase = "loop"
    /\ Len(Top.values) < Retained(Top.ellipsis, length_of(Top))
    /\ Len(stack) < MaxStack
    /\ stack' = Append(stack,
            ReprFrame(Heap[Top.obj].items[Len(Top.values) + 1], None, Top.indent,
                      Top.max_depth, child_depth(Top.depth)))
    /\ UNCHANGED <<pc, call, ret, result, prev, dateVars>>

\* the loop is over: decide the layout, write the text, return it
Container_emit ==
    /\ pc = "running"
    /\ Top.fn \in ContainerFns
    /\ Top.phase = "loop"
    /\ Len(Top.values) = Retained(Top.ellipsis, length_of(Top))
    /\ LET he == has_ellipsis_of(Top.ellipsis, length_of(Top))
           lines == IF Top.fn = "dict_repr" THEN dict_lines(Top.lines, Top.values, he)
                    ELSE iterable_lines(Top.lines, Top.values, he)
           out == IF Top.fn = "dict_repr" THEN dict_emit(lines, Top.values, he, Top.indent)
                  ELSE iterable_emit(Top.tie, lines, Top.values, he, Top.indent)
       IN Returns(out, [NoRet EXCEPT !.frame = Top, !.lines = lines, !.has_ellipsis = he,
                                     !.out = out])

\* the loop of object_repr, getattr succeeded: the value is rendered
Object_field ==
    /\ pc = "running"
    /\ Top.fn = "object_repr"
    /\ Top.phase = "loop"
    /\ Len(Top.values) < Len(Top.fields)
    /\ ~attr_missing(Top.obj, Top.fields[Len(Top.values) + 1])
    /\ Len(stack) < MaxStack
    /\ LET field == Top.fields[Len(Top.values) + 1]
       IN stack' = Append(stack,
            ReprFrame(Heap[Top.obj].attrs[field], field_lines_get(Top.field_lines, field),
                      Top.indent, Top.max_depth, child_depth(Top.depth)))
    /\ UNCHANGED <<pc, call, ret, result, prev, dateVars>>

\* the loop of object_repr, getattr raised AttributeError: the value is UNBOUNDED
Object_unbounded ==
    /\ pc = "running"
    /\ Top.fn = "object_repr"
    /\ Top.phase = "loop"
    /\ Len(Top.values) < Len(Top.fields)
    /\ attr_missing(Top.obj, Top.fields[Len(Top.values) + 1])
    /\ stack' = [stack EXCEPT ![Len(stack)].values =
            Append(@, [k |-> Top.fields[Len(Top.values) + 1], v |-> UNBOUNDED])]
    /\ UNCHANGED <<pc, call, ret, result, prev, dateVars>>

\* Object_emit with a per-field override read as a directive for the record itself
Object_emit_override_parent ==
    /\ pc = "running"
    /\ Top.fn = "object_repr"
    /\ Top.phase = "loop"
    /\ Len(Top.values) = Len(Top.fields)
    /\ ~object_raises(Top.lines, Top.values)
    /\ LET lines == IF \E f \in DOMAIN Top.field_lines : Top.field_lines[f] = "multiple"
                    THEN "multiple"
                    ELSE object_lines(Top.lines, Top.values)
           out == object_emit(Heap[Top.obj].name, lines, Top.values, Top.indent)
       IN Returns(out, [NoRet EXCEPT !.frame = Top, !.lines = lines, !.out = out])

Object_emit ==
    /\ pc = "running"
    /\ Top.fn = "object_repr"
    /\ Top.phase = "loop"
    /\ Len(Top.values) = Len(Top.fields)
    /\ ~object_raises(Top.lines, Top.values)
    /\ LET lines == object_lines(Top.lines, Top.values)
           out == object_emit(Heap[Top.obj].name, lines, Top.values, Top.indent)
       IN Returns(out, [NoRet EXCEPT !.frame = Top, !.lines = lines, !.out = out])

\* len(v) of UNBOUNDED: the TypeError leaves every active call
Object_raise ==
    /\ pc = "running"
    /\ Top.fn = "object_repr"
    /\ Top.phase = "loop"
    /\ Len(Top.values) = Len(Top.fields)
    /\ object_raises(Top.lines, Top.values)
    /\ pc' = "raised"
    /\ stack' = <<>>
    /\ ret' = [NoRet EXCEPT !.frame = Top]
    /\ UNCHANGED <<call, result, prev, dateVars>>

\* the field_lines maps one edit away: an entry added, removed or changed
FieldLinesEdits(obj, fl) ==
    {fl @@ (f :> m) : f \in DOMAIN Heap[obj].attrs \ DOMAIN fl, m \in {"single", "multiple"}}
    \cup {[g \in DOMAIN fl \ {f} |-> fl[g]] : f \in DOMAIN fl}
    \cup {[fl EXCEPT ![f] = IF @ = "single" THEN "multiple" ELSE "single"] : f \in DOMAIN fl}

\* the caller renders the same record once more, under automatic layout, with
\* one entry of field_lines edited and every other argument as before
Again ==
    /\ pc = "done"
    /\ prev = NoPrev
    /\ call.fn = "object_repr"
    /\ call.lines = None
    /\ \E fl \in FieldLinesEdits(call.obj, call.field_lines) :
          /\ call' = [call EXCEPT !.field_lines = fl]
          /\ stack' = <<[call EXCEPT !.field_lines = fl]>>
    /\ prev' = [call |-> call, ret |-> ret, result |-> result]
    /\ pc' = "running"
    /\ ret' = NoRet
    /\ result' = <<>>
    /\ UNCHANGED dateVars

Next ==
    \/ Call
    \/ Again
    \/ Repr_limit
    \/ Repr_container
    \/ Repr_kis
    \/ Repr_opaque
    \/ Render_limit
    \/ Render_enter
    \/ Container_child
    \/ Container_emit
    \/ Object_field
    \/ Object_unbounded
    \/ Object_emit
    \/ Object_raise

Spec == Init /\ [][Next]_vars

\* a call, once made, runs to its end: the interpreter never abandons a call
FairSpec == Spec /\ WF_vars(Next)

-----------------------------------------------------------------------------
(* The order-history query of pykis/api/account/daily_order.py.  A date is a
   record of year, month and day; the date arithmetic is that of the
   proleptic Gregorian calendar of datetime.date. *)

MaxYearsBack == 2   \* the years before the current one that start and end reach
MaxPages == 2       \* pages of one query before the server reports the last one
MaxClockDays == 1   \* days that pass between two reads of the clock

Date(y, m, d) == [year |-> y, month |-> m, day |-> d]

\* date comparison: by year, then month, then day
DateGT(a, b) ==
    \/ a.year > b.year
    \/ a.year = b.year /\ a.month > b.month
    \/ a.year = b.year /\ a.month = b.month /\ a.day > b.day

IsLeap(y) == y % 4 = 0 /\ (y % 100 # 0 \/ y % 400 = 0)

DAYS_IN_MONTH == <<31, 28, 31, 30, 31, 30, 31, 31, 30, 31, 30, 31>>
DAYS_BEFORE_MONTH == <<0, 31, 59, 90, 120, 151, 181, 212, 243, 273, 304, 334>>

DaysInMonth(y, m) == IF m = 2 /\ IsLeap(y) THEN 29 ELSE DAYS_IN_MONTH[m]
DaysBeforeYear(y) == (y - 1) * 365 + (y - 1) \div 4 - (y - 1) \div 100 + (y - 1) \div 400
DaysBeforeMonth(y, m) == DAYS_BEFORE_MONTH[m] + (IF m > 2 /\ IsLeap(y) THEN 1 ELSE 0)

\* date.toordinal(): 1 for 0001-01-01
toordinal(d) == DaysBeforeYear(d.year) + DaysBeforeMonth(d.year, d.month) + d.day

\* date.fromordinal(n): whole 400-, 100-, 4- and 1-year cycles, then the month
\* estimated as (n + 50) >> 5 and corrected downwards
fromordinal(ord) ==
    LET n0 == ord - 1
        n400 == n0 \div 146097
        r400 == n0 % 146097
        n100 == r400 \div 36524
        r100 == r400 % 36524
        n4 == r100 \div 1461
        r4 == r100 % 1461
        n1 == r4 \div 365
        n == r4 % 365
        year == n400 * 400 + 1 + n100 * 100 + n4 * 4 + n1
        leapyear == n1 = 3 /\ (n4 # 24 \/ n100 = 3)
        guess == (n + 50) \div 32
        before(m) == DAYS_BEFORE_MONTH[m] + (IF m > 2 /\ leapyear THEN 1 ELSE 0)
        month == IF before(guess) > n THEN guess - 1 ELSE guess
    IN IF n1 = 4 \/ n100 = 4 THEN Date(year - 1, 12, 31)
       ELSE Date(year, month, n - before(month) + 1)

\* d - timedelta(days=k)
MinusDays(d, k) == fromordinal(toordinal(d) - k)

DIGITS == <<"0", "1", "2", "3", "4", "5", "6", "7", "8", "9">>

RECURSIVE ZeroPadded(_, _)
\* the decimal digits of n, zero-padded to width w
ZeroPadded(n, w) == IF w = 0 THEN <<>> ELSE ZeroPadded(n \div 10, w - 1) \o <<DIGITS[(n % 10) + 1]>>

\* d.strftime("%Y%m%d")
strftime(d) == ZeroPadded(d.year, 4) \o ZeroPadded(d.month, 2) \o ZeroPadded(d.day, 2)

\* (now.year - d.year) * 12 - now.month <= 3
is_recent(now, d) == (now.year - d.year) * 12 - now.month <= 3

\* the first day of the month 90 days before now
split_start(now) == Date(MinusDays(now, 90).year, MinusDays(now, 90).month, 1)

\* datetime.now(TIMEZONE).date() after an earlier read of d: time does not
\* run backwards, and a fetch or a midnight may lie between the two reads
ClockAfter(d) == {fromordinal(toordinal(d) + k) : k \in 0..MaxClockDays}

LowerDate(a, b) == IF DateGT(a, b) THEN b ELSE a
UpperDate(a, b) == IF DateGT(a, b) THEN a ELSE b

\* today's date: early and late in the year, month ends, a leap year
NowDates == {Date(2024, 2, 15), Date(2024, 5, 31), Date(2024, 9, 1), Date(2024, 12, 31)}

\* start and end: the first and the last day of every month of the current
\* year and of the years before it
ArgDates ==
    {Date(y, m, d) : y \in (2024 - MaxYearsBack)..2024, m \in 1..12, d \in {1}}
    \cup {Date(y, m, DaysInMonth(y, m)) : y \in (2024 - MaxYearsBack)..2024, m \in 1..12}

\* the program is about to call domestic_daily_orders(start, end)
DateInit ==
    /\ dpc = "start"
    /\ dargs \in [start : ArgDates, end : ArgDates, now : NowDates]
    /\ clock = <<>>
    /\ todo = <<>>
    /\ inner = NoInner
    /\ sent = <<>>
    /\ pc = "idle"
    /\ call = NoFrame
    /\ stack = <<>>
    /\ ret = NoRet
    /\ result = <<>>
    /\ prev = NoPrev

\* both dates count as recent: one query for the whole period
Orders_recent ==
    /\ dpc = "start"
    /\ LET start == LowerDate(dargs.start, dargs.end)
           end == UpperDate(dargs.start, dargs.end)
       IN /\ is_recent(dargs.now, start) /\ is_recent(dargs.now, end)
          /\ todo' = <<[start |-> start, end |-> end]>>
    /\ clock' = <<dargs.now>>
    /\ dpc' = "call"
    /\ UNCHANGED <<dargs, inner, sent, reprVars>>

\* otherwise two queries: from split_start to end, then from start to the day
\* before split_start
Orders_split ==
    /\ dpc = "start"
    /\ LET start == LowerDate(dargs.start, dargs.end)
           end == UpperDate(dargs.start, dargs.end)
       IN /\ ~(is_recent(dargs.now, start) /\ is_recent(dargs.now, end))
          /\ todo' = <<[start |-> split_start(dargs.now), end |-> end],
                       [start |-> start, end |-> MinusDays(split_start(dargs.now), 1)]>>
    /\ clock' = <<dargs.now>>
    /\ dpc' = "call"
    /\ UNCHANGED <<dargs, inner, sent, reprVars>>

\* _domestic_daily_orders refuses a period that starts recent and ends more
\* than three months after the current month
inner_raises(now, start, end) ==
    /\ end.month + (now.year - end.year) * 12 - now.month > 3
    /\ is_recent(now, start)

\* _domestic_daily_orders up to its first request: the dates are ordered, the
\* clock is read again and the first page is selected
Inner_begin ==
    /\ dpc = "call"
    /\ LET start == LowerDate(Head(todo).start, Head(todo).end)
           end == UpperDate(Head(todo).start, Head(todo).end)
       IN \E now \in ClockAfter(clock[Len(clock)]) :
             /\ ~inner_raises(now, start, end)
             /\ clock' = Append(clock, now)
             /\ inner' = [start |-> start, end |-> end,
                          is_recent |-> is_recent(now, start), page |-> 1]
    /\ todo' = Tail(todo)
    /\ dpc' = "fetch"
    /\ UNCHANGED <<dargs, sent, reprVars>>

\* the ValueError leaves domestic_daily_orders as well
Inner_raise ==
    /\ dpc = "call"
    /\ \E now \in ClockAfter(clock[Len(clock)]) :
          /\ inner_raises(now, LowerDate(Head(todo).start, Head(todo).end),
                          UpperDate(Head(todo).start, Head(todo).end))
          /\ clock' = Append(clock, now)
    /\ dpc' = "raised"
    /\ UNCHANGED <<dargs, todo, inner, sent, reprVars>>

\* the request of one page
Request ==
    [INQR_STRT_DT |-> strftime(inner.start), INQR_END_DT |-> strftime(inner.end),
     is_recent |-> inner.is_recent, page |-> inner.page]

\* one page fetched, and the server has more
Fetch_more ==
    /\ dpc = "fetch"
    /\ inner.page < MaxPages
    /\ sent' = Append(sent, Request)
    /\ inner' = [inner EXCEPT !.page = @ + 1]
    /\ UNCHANGED <<dpc, dargs, clock, todo, reprVars>>

\* the last page fetched: the query returns, and domestic_daily_orders with
\* it when no query is left
Fetch_last ==
    /\ dpc = "fetch"
    /\ sent' = Append(sent, Request)
    /\ inner' = NoInner
    /\ dpc' = IF todo = <<>> THEN "done" ELSE "call"
    /\ UNCHANGED <<dargs, clock, todo, reprVars>>

DateNext ==
    \/ Orders_recent
    \/ Orders_split
    \/ Inner_begin
    \/ Inner_raise
    \/ Fetch_more
    \/ Fetch_last

DateSpec == DateInit /\ [][DateNext]_vars

-----------------------------------------------------------------------------
(* Vocabulary of the properties *)

Finished == pc \in {"done", "raised"}

\* the call that returned last was a renderer that wrote its own text
Emitted == pc # "raised" /\ ret.frame.fn \in RenderFns /\ ~ret.limited
ContainerEmitted == Emitted /\ ret.frame.fn \in ContainerFns

RetOpen ==
    IF ret.frame.fn = "dict_repr" THEN <<"{">>
    ELSE IF ret.frame.fn = "object_repr" THEN Heap[ret.frame.obj].name \o <<"(">>
    ELSE open_tie(ret.frame.tie)

RetClose ==
    IF ret.frame.fn = "dict_repr" THEN <<"}">>
    ELSE IF ret.frame.fn = "object_repr" THEN <<")">>
    ELSE close_tie(ret.frame.tie)

\* open bracket, newline, ..., newline, close bracket
IsMultipleForm == IsPrefix(RetOpen \o <<NL>>, ret.out) /\ IsSuffix(<<NL>> \o RetClose, ret.out)

\* open bracket directly followed by the entries, close bracket last
IsSingleForm ==
    /\ IsPrefix(RetOpen, ret.out)
    /\ IsSuffix(RetClose, ret.out)
    /\ ~IsPrefix(RetOpen \o <<NL>>, ret.out)

RECURSIVE JoinedBy(_, _, _, _)
\* pre \o values[i].v of every entry from i on, joined by sep
JoinedBy(values, pre, sep, i) ==
    IF i > Len(values) THEN <<>>
    ELSE pre \o values[i].v \o (IF i < Len(values) THEN sep ELSE <<>>)
         \o JoinedBy(values, pre, sep, i + 1)

CyclicNodes == {"Lcyc", "Nest", "Node", "Dc", "Lc", "Rc"}

-----------------------------------------------------------------------------
(* C1: depth bound.  A render started at depth 0 with max_depth = d never
   renders the contents of a value at a depth greater than d, and every
   nested call runs at its caller's depth + 1. *)
C1_DepthBound ==
    /\ \A i \in DOMAIN stack :
          (stack[i].fn \in RenderFns /\ stack[i].phase = "loop")
             => stack[i].depth <= call.max_depth
    /\ \A i \in DOMAIN stack : i > 1 => stack[i].depth = stack[i - 1].depth + 1

\* every call that was started comes to an end, by returning or by raising:
\* no call recurses for ever, on cyclic graphs too
C2_NoCallRunsForEver == (pc = "running") ~> Finished

(* C2: termination.  Every render call that was started eventually returns
   its text, on cyclic graphs too, for every max_depth >= 0. *)
C2_Termination == (pc = "running") ~> (pc = "done")

(* C3: layout monotonicity.  Under automatic layout, a Mapping, Sequence,
   Set or record one of whose rendered children holds a line break is
   emitted in multiple form. *)
C3_LayoutMonotone ==
    (Emitted /\ ret.frame.lines = None /\ AnyNL(ret.frame.values)) => IsMultipleForm

(* C4: automatic layout decision.  With no layout directive a container is
   emitted in single-line form if and only if it has at most 5 entries, no
   entry holds a line break, no ellipsis is appended and the cost is at most
   120; in every other case it is emitted as a multi-line block. *)
C4_FitsSingle ==
    /\ Len(ret.frame.values) <= SINGLE_LINE_MAX_COUNT
    /\ ~AnyNL(ret.frame.values)
    /\ ~ret.has_ellipsis
    /\ SumFrom(ret.frame.values, 1, IF ret.frame.fn = "dict_repr" THEN 4 ELSE 2) - 1
          <= SINGLE_LINE_MAX_LENGTH

C4_AutomaticLayout ==
    (ContainerEmitted /\ ret.frame.lines = None) =>
        /\ IsSingleForm <=> C4_FitsSingle
        /\ ~C4_FitsSingle => IsMultipleForm

(* C5: truncation.  With ellipsis = k >= 0 on n entries: n > k renders
   exactly the first k entries and one ellipsis marker; n <= k renders all n
   entries and no marker. *)
C5_Truncation ==
    (ContainerEmitted /\ ret.frame.ellipsis # NoEllipsis) =>
        LET k == ret.frame.ellipsis[1]
            n == length_of(ret.frame)
        IN IF n > k
           THEN Len(ret.frame.values) = k /\ ret.has_ellipsis
           ELSE Len(ret.frame.values) = n /\ ~ret.has_ellipsis

(* C6: a field whose lookup fails is rendered as field=Unbounded and the
   render completes without raising, under every layout setting and every
   field count. *)
C6_LookupFailureDegrades ==
    /\ pc # "raised"
    /\ (Emitted /\ ret.frame.fn = "object_repr") =>
          \A i \in 1..Len(ret.frame.values) :
              attr_missing(ret.frame.obj, ret.frame.fields[i])
                 => ret.frame.values[i].v = UNBOUNDED

(* C7: an empty dict, list, tuple or set rendered at depth < max_depth is
   exactly its open bracket followed by its close bracket, for every lines,
   ellipsis and indent. *)
C7_EmptyContainer ==
    (ContainerEmitted /\ length_of(ret.frame) = 0) => ret.out = RetOpen \o RetClose

(* C8: forced layout.  A value with at least one entry rendered under an
   explicit directive (the lines argument of a renderer, or the field_lines
   entry of the record field that holds it) is emitted in exactly the stated
   mode. *)
C8_InMode(mode) == IF mode = "single" THEN IsSingleForm ELSE IsMultipleForm

C8_ForcedLayout ==
    /\ (Emitted /\ ret.frame.lines # None /\ ret.frame.values # <<>>)
          => C8_InMode(ret.frame.lines)
    /\ (/\ stack # <<>>
        /\ Top.fn = "object_repr" /\ Top.phase = "loop" /\ Len(Top.values) > 0
        /\ Top.values[Len(Top.values)].v # UNBOUNDED
        /\ Top.fields[Len(Top.values)] \in DOMAIN Top.field_lines
        /\ Emitted /\ ret.frame.depth = Top.depth + 1 /\ ret.frame.values # <<>>)
           => C8_InMode(Top.field_lines[Top.fields[Len(Top.values)]])

(* C9: shape-specific depth placeholder.  The text the dispatcher gives for
   a nested container or record at depth >= max_depth is that shape's
   placeholder: {:...}, [...], (...), {...} or TypeName(...). *)
C9_ShapePlaceholder ==
    (/\ pc # "raised" /\ ret.frame.fn = "_repr" /\ ret.limited /\ ret.frame.depth >= 1
     /\ Heap[ret.frame.obj].kind # "opaque")
        => ret.out =
             (CASE Heap[ret.frame.obj].kind = "dict" -> <<"{", ":", ".", ".", ".", "}">>
                [] Heap[ret.frame.obj].kind = "list" -> <<"[", ".", ".", ".", "]">>
                [] Heap[ret.frame.obj].kind = "tuple" -> <<"(", ".", ".", ".", ")">>
                [] Heap[ret.frame.obj].kind = "set" -> <<"{", ".", ".", ".", "}">>
                [] OTHER -> Heap[ret.frame.obj].name \o <<"(", ".", ".", ".", ")">>)

(* C10: a Sequence of n short elements truncated at k, 0 < k < n, k <= 5,
   with no layout directive. *)
C10_Case ==
    /\ Emitted
    /\ ret.frame.fn \in {"list_repr", "tuple_repr"}
    /\ ret.frame.lines = None
    /\ ret.frame.ellipsis # NoEllipsis
    /\ ret.frame.ellipsis[1] > 0
    /\ ret.frame.ellipsis[1] < length_of(ret.frame)
    /\ ret.frame.ellipsis[1] <= SINGLE_LINE_MAX_COUNT
    /\ ~AnyNL(ret.frame.values)
    /\ SumFrom(ret.frame.values, 1, 2) - 1 <= SINGLE_LINE_MAX_LENGTH

\* C10 as stated: it is emitted on one line, open + the first k elements
\* joined by ", " + ", ..." + close
C10_TruncatedSingleLine ==
    C10_Case =>
        ret.out = RetOpen \o JoinedBy(ret.frame.values, <<>>, COMMA_SP, 1)
                     \o COMMA_DOTS \o RetClose

\* C10 as amended: it is emitted as a block, open, newline, the first k
\* elements each after one indent and joined by ",\n", newline, the indent
\* and "...", newline, close
C10_TruncatedBlock ==
    C10_Case =>
        /\ Len(ret.frame.values) = ret.frame.ellipsis[1]
        /\ ret.out = RetOpen \o <<NL>>
                        \o JoinedBy(ret.frame.values, ret.frame.indent, COMMA_NL, 1)
                        \o <<NL>> \o ret.frame.indent \o DOTS \o <<NL>> \o RetClose

\* list_repr([1, 2, 3, 4, 5, 6], ellipsis=3) returned "[\n    1,\n    2,\n    3\n    ...\n]"
C10_Witness ==
    /\ C10_Case
    /\ ret.frame.obj = "L6"
    /\ ret.frame.ellipsis = <<3>>
    /\ ret.out = <<"[", NL, " ", " ", " ", " ", "1", ",", NL, " ", " ", " ", " ", "2", ",", NL,
                   " ", " ", " ", " ", "3", NL, " ", " ", " ", " ", ".", ".", ".", NL, "]">>

-----------------------------------------------------------------------------
(* C11: mapping entry text.  Every retained entry of a dict_repr output is
   "<key text>: <value text>", the key text being the key's default textual
   form applied once, the very string the single-line cost counted, in the
   dict's insertion order; so a mapping the automatic decision made single is
   at most 120 + 1 characters long.  (Stated on the outputs whose layout is
   single, where the dict renderer's missing block form of C3 plays no part.) *)
RECURSIVE C11_Entries(_, _)
\* "k: v" of every entry from i on, joined by ", "
C11_Entries(values, i) ==
    IF i > Len(values) THEN <<>>
    ELSE values[i].k \o COLON_SP \o values[i].v
         \o (IF i < Len(values) THEN COMMA_SP ELSE <<>>)
         \o C11_Entries(values, i + 1)

C11_MappingEntryText ==
    (Emitted /\ ret.frame.fn = "dict_repr" /\ ret.lines = "single") =>
        /\ \A i \in 1..Len(ret.frame.values) :
              ret.frame.values[i].k = builtin_repr(Heap[ret.frame.obj].keys[i])
        /\ ret.out = <<"{">> \o C11_Entries(ret.frame.values, 1)
                        \o (IF ret.has_ellipsis THEN COMMA_DOTS ELSE <<>>) \o <<"}">>
        /\ ret.frame.lines = None => Len(ret.out) <= SINGLE_LINE_MAX_LENGTH + 1

(* C12: per-field override and the record's own layout.  A record is rendered
   by object_repr under automatic layout, then rendered again with one
   field_lines entry added, removed or changed.  The statement as written: the
   record is emitted single-line both times or multi-line both times. *)
C12_RecordSingle(r) ==
    /\ IsPrefix(Heap[r.frame.obj].name \o <<"(">>, r.out)
    /\ ~IsPrefix(Heap[r.frame.obj].name \o <<"(", NL>>, r.out)

C12_Rerendered == pc = "done" /\ prev # NoPrev /\ ~ret.limited

C12_ParentDecisionUnchanged ==
    C12_Rerendered => (C12_RecordSingle(ret) <=> C12_RecordSingle(prev.ret))

\* the automatic test of object_repr on the rendered field texts
C12_Fits(values) ==
    /\ Len(values) <= SINGLE_LINE_MAX_COUNT
    /\ SumFrom(values, 1, 2) - 1 <= SINGLE_LINE_MAX_LENGTH
    /\ ~AnyNL(values)

C12_SameEntry(fl, gl, f) ==
    (f \in DOMAIN fl <=> f \in DOMAIN gl) /\ (f \in DOMAIN fl => fl[f] = gl[f])

(* C12 as the code has it: the edit reaches the record only through the text
   of the named field.  Every field whose entry is untouched renders to the
   same text both times; the record is single-line exactly when its field
   texts pass the automatic test, so its form differs between the two
   renderings only when the edited field's new text changes the outcome of
   that test (it gains or loses a line break, or moves the cost across the
   budget); and when the edited field's text is the same, so is the whole
   output. *)
C12_OverrideReachesParentThroughText ==
    C12_Rerendered =>
        LET now == ret.frame.values
            was == prev.ret.frame.values
        IN /\ Len(now) = Len(was)
           /\ \A i \in 1..Len(now) :
                 /\ now[i].k = was[i].k
                 /\ C12_SameEntry(ret.frame.field_lines, prev.ret.frame.field_lines, now[i].k)
                        => now[i].v = was[i].v
           /\ C12_RecordSingle(ret) <=> C12_Fits(now)
           /\ C12_RecordSingle(prev.ret) <=> C12_Fits(was)
           /\ (now = was) => (result = prev.result)

\* a record re-rendered with an override added for a field, once where the
\* field's text changed and the record stayed in the same form
C12_Witness ==
    /\ C12_Rerendered
    /\ \E i \in 1..Len(ret.frame.values) :
          /\ ~C12_SameEntry(ret.frame.field_lines, prev.ret.frame.field_lines,
                            ret.frame.values[i].k)
          /\ ret.frame.values[i].v # prev.ret.frame.values[i].v
    /\ C12_RecordSingle(ret) <=> C12_RecordSingle(prev.ret)

\* the server's reading of a YYYYMMDD text
C13_DigitValue(c) == CHOOSE i \in 0..9 : DIGITS[i + 1] = c

RECURSIVE C13_Number(_)
C13_Number(s) ==
    IF s = <<>> THEN 0
    ELSE C13_Number(SubSeq(s, 1, Len(s) - 1)) * 10 + C13_DigitValue(s[Len(s)])

C13_Parsed(s) ==
    Date(C13_Number(SubSeq(s, 1, 4)), C13_Number(SubSeq(s, 5, 6)), C13_Number(SubSeq(s, 7, 8)))

\* the queries made: the first page of each (later pages repeat its dates)
C13_Queries == SelectSeq(sent, LAMBDA r : r.page = 1)

\* the days a query asks for, as day numbers
C13_Days(r) == toordinal(C13_Parsed(r.INQR_STRT_DT))..toordinal(C13_Parsed(r.INQR_END_DT))

C13_Requested ==
    toordinal(LowerDate(dargs.start, dargs.end))..toordinal(UpperDate(dargs.start, dargs.end))

(* C13: date-range coverage of the order-history query.  When
   domestic_daily_orders returns, the date ranges of the queries it made
   through _domestic_daily_orders are pairwise disjoint and together are
   exactly the days from min(start, end) to max(start, end): no day outside
   the requested period is queried and no day is queried twice. *)
C13_DateRangeCoverage ==
    dpc = "done" =>
        /\ \A i, j \in 1..Len(C13_Queries) :
              i < j => C13_Days(C13_Queries[i]) \cap C13_Days(C13_Queries[j]) = {}
        /\ UNION {C13_Days(C13_Queries[i]) : i \in 1..Len(C13_Queries)} = C13_Requested

====
